---------------------------- MODULE Spec2Model ----------------------------
(***************************************************************************)
(* A model of ankdown (src/ankdown/ankdown.py): the card parser            *)
(* (produce_cards, compile_field, Card), the deck assembler                *)
(* (cards_to_apkg, DeckCollection, Card.make_ref_pair) and the incremental *)
(* build (main, cards_from_dir, load_version_log).                        *)
(*                                                                         *)
(* Text is a sequence of tokens.  A document is a sequence of lines, each  *)
(* line one token standing for the line and its newline.  A path or a      *)
(* media reference is a sequence of tokens in which "/" is os.sep, so      *)
(* splitting and joining on the separator is computed on the tokens.       *)
(*                                                                         *)
(* Three specifications share the module: SpecParse runs produce_cards on  *)
(* a document drawn by its Init, SpecDeck runs cards_to_apkg on cards      *)
(* drawn by its actions, and Spec runs main over a small document tree,    *)
(* again and again, with the tree edited between the runs.                 *)
(***************************************************************************)
EXTENDS Integers, Sequences, FiniteSets, TLC

VARIABLES
    \* ---- produce_cards -------------------------------------------------
    filename,             \* the document's path
    lines,                \* the document's lines, in order
    pos,                  \* 1-based position of the iterator `for line in f`
    current_field_lines,  \* lines accumulated for the field being read
    i,                    \* index of the current card in its document
    current_card,         \* the Card being built
    yielded,              \* the cards the generator has yielded, in order
    candidates,           \* history: every Card constructed, with the raw
                          \* lines each of its fields was compiled from
    ppc,                  \* "idle" | "reading" | "done" | "raised"
    \* ---- cards_to_apkg -------------------------------------------------
    decks,                \* DeckCollection: deck name -> notes, in order
    media,                \* set of package names handed to the package
    staged,               \* the scratch directory: package name -> the
                          \* absolute source path last copied onto it
    pairs,                \* history: every (abspath, newpath) staged
    ncards,               \* number of cards consumed so far
    cursor,               \* the card iterator: <<file it is at, index of
                          \* the next card of that file>>
    dpc,                  \* "idle" | "assembling" | "written" | "raised"
    \* ---- main ----------------------------------------------------------
    content,              \* the tree: file -> content of the document
    diskLedger,           \* the version ledger file: file -> hash, 0 absent
    VERSION_LOG,          \* the ledger in the memory of the running build
    updated_only,         \* CONFIG['updated_only'] of the running build
    phase,                \* "idle" | "walking" | "packaged" | "done"
                          \* | "aborted"
    walk,                 \* 1-based position of os.walk in the tree
    processed,            \* history: files parsed by the current run
    prevProcessed,        \* history: files parsed by the previous run
    prevPhase,            \* history: how the previous run ended
    prevUpdatedOnly,      \* history: updated_only of the previous run
    failed,               \* history: the file the run aborted on, 0 none
    edited,               \* history: a document other than the one the
                          \* last run aborted on was edited since that run
    sameTree,             \* history: the run walks the tree the previous
                          \* run walked (but for the document it failed on)
    runs                  \* number of builds started

parseVars == <<filename, lines, pos, current_field_lines, i, current_card,
               yielded, candidates, ppc>>
deckVars == <<decks, media, staged, pairs, ncards, cursor, dpc>>
mainVars == <<content, diskLedger, VERSION_LOG, updated_only, phase,
              walk, processed, prevProcessed, prevPhase,
              prevUpdatedOnly, failed, edited, sameTree, runs>>
vars == <<parseVars, deckVars, mainVars>>

---------------------------------------------------------------------------
(* Bounds of the model. *)

\* longest document SpecParse draws
MaxLines == 4
\* cards SpecDeck feeds to cards_to_apkg
MaxCards == 3
\* files of the tree Spec walks (file 1 is not a markdown file)
NumFiles == 3
\* builds run one after the other
MaxRuns == 2
\* distinct contents a document can take
NumContents == 3
\* size of the abstract hash space (simple_hash collides beyond it)
HashBuckets == 2

---------------------------------------------------------------------------
(* Lines and their compilation. *)

\* a markdown image whose URL starts with http (matched by the regex of
\* compile_field), and what _extract_image rewrites it to
RemoteImage == "![d](http://h/d.png)"
LocalImage == "![d](/cwd/d.png)"

\* the lines SpecParse builds documents from
Alphabet == {"%", "---", " --- ", "", "Front text", RemoteImage}

\* str.strip(): the line without its newline and surrounding blanks
strip(line) ==
    CASE line = " --- " -> "---"
      [] line = " % " -> "%"
      [] line = "  " -> ""
      [] OTHER -> line

\* s.strip() is non-empty for a text (a field): some token is not blank
HasContent(text) == \E k \in DOMAIN text : strip(text[k]) # ""

\* the regex substitution of compile_field: every remote image is fetched
\* and its URL replaced by the local path of the downloaded file
extract_images(text) ==
    [k \in DOMAIN text |-> IF text[k] = RemoteImage THEN LocalImage ELSE text[k]]

HasRemoteImage(text) == \E k \in DOMAIN text : text[k] = RemoteImage

\* misaka's rendering of one line inside a paragraph
inline(line) ==
    IF line = LocalImage THEN "<img src=\"/cwd/d.png\" alt=\"d\">" ELSE strip(line)

\* misaka.html: lines separated by blank lines become paragraphs, blank
\* lines are dropped
RECURSIVE render(_, _)
render(text, open) ==
    IF text = <<>> THEN (IF open THEN <<"</p>">> ELSE <<>>)
    ELSE IF strip(Head(text)) = ""
         THEN (IF open THEN <<"</p>">> ELSE <<>>) \o render(Tail(text), FALSE)
         ELSE (IF open THEN <<>> ELSE <<"<p>">>) \o <<inline(Head(text))>>
              \o render(Tail(text), TRUE)

\* the lines of the model hold no math delimiter and no escaped bracket, so
\* both branches of the math normalisation leave them as they are
field_to_html(field) == render(field, FALSE)

compile_field_norender(field_lines, is_markdown) == field_lines

compile_field(field_lines, is_markdown) ==
    IF is_markdown THEN field_to_html(extract_images(field_lines))
    ELSE field_lines

\* compile_field raises when a remote image cannot be downloaded
compile_raises(field_lines, is_markdown, fetch_ok) ==
    is_markdown /\ HasRemoteImage(field_lines) /\ ~fetch_ok

---------------------------------------------------------------------------
(* Paths. *)

Sep == "/"

\* positions of the separators of a path
SepAt(path) == {k \in DOMAIN path : path[k] = Sep}

Last(S) == CHOOSE k \in S : \A m \in S : m <= k

\* os.path.dirname: up to the last separator, trailing separators dropped
\* unless the head is the root
dirname(path) ==
    IF SepAt(path) = {} THEN <<>>
    ELSE LET head == SubSeq(path, 1, Last(SepAt(path)))
             nonsep == {k \in DOMAIN head : head[k] # Sep}
         IN  IF nonsep = {} THEN head ELSE SubSeq(head, 1, Last(nonsep))

\* os.path.basename: what follows the last separator
basename(path) ==
    IF SepAt(path) = {} THEN path
    ELSE SubSeq(path, Last(SepAt(path)) + 1, Len(path))

---------------------------------------------------------------------------
(* Card. *)

Card(fname, file_index) ==
    [filename |-> fname, file_index |-> file_index, fields |-> <<>>]

deckdir(card) == dirname(card.filename)

deckname_of_file(card) == basename(card.filename)

deckname(card) == basename(deckdir(card))

add_field(card, field) == [card EXCEPT !.fields = Append(@, field)]

has_data_any_field(card) == Len(card.fields) > 0

has_data(card) ==
    Len(card.fields) > 0
    /\ \E p \in DOMAIN card.fields : HasContent(card.fields[p])

has_front_and_back_three(card) == Len(card.fields) > 2

has_front_and_back(card) == Len(card.fields) >= 2

---------------------------------------------------------------------------
(* produce_cards. *)

is_separator(stripped) == stripped \in {"---", "%"}

ends_card_always(stripped) == stripped \in {"---", "%"}

ends_card(stripped) == stripped = "---"

\* the document of the example deck1/basic.md
BasicDoc ==
    <<"Front text", "", "%", "", "Back text", "", "tag1, tag2", "", "---">>

BasicFile == <<"deck1", Sep, "basic.md">>

Documents == UNION {[1..n -> Alphabet] : n \in 0..MaxLines}

ParseIdle ==
    /\ filename = <<>> /\ lines = <<>> /\ pos = 1
    /\ current_field_lines = <<>> /\ i = 0
    /\ current_card = Card(<<>>, 0) /\ yielded = <<>>
    /\ candidates = <<>> /\ ppc = "idle"

\* lines 329-332: the file is open, the first Card constructed
InitParse ==
    /\ \/ filename = <<"notes.md">> /\ lines \in Documents
       \/ filename = BasicFile /\ lines = BasicDoc
    /\ pos = 1
    /\ current_field_lines = <<>>
    /\ i = 0
    /\ current_card = Card(filename, 0)
    /\ yielded = <<>>
    /\ candidates = <<[file_index |-> 0, raw |-> <<>>]>>
    /\ ppc = "reading"

\* history: the current card got a field compiled from current_field_lines
NoteField(cands) ==
    [cands EXCEPT ![Len(cands)].raw = Append(@, current_field_lines)]

\* lines 335-343: a separator line closes the field, "---" also the card
ReadSeparator ==
    /\ ppc = "reading" /\ pos <= Len(lines)
    /\ is_separator(strip(lines[pos]))
    /\ LET is_markdown == ~has_front_and_back(current_card)
           field == compile_field(current_field_lines, is_markdown)
           card == add_field(current_card, field)
       IN  \E fetch_ok \in BOOLEAN :
             IF compile_raises(current_field_lines, is_markdown, fetch_ok)
             THEN /\ ppc' = "raised"
                  /\ UNCHANGED <<pos, current_field_lines, i, current_card,
                                 yielded, candidates>>
             ELSE /\ current_field_lines' = <<>>
                  /\ pos' = pos + 1
                  /\ ppc' = ppc
                  /\ IF ends_card(strip(lines[pos]))
                     THEN /\ yielded' = Append(yielded, card)
                          /\ i' = i + 1
                          /\ current_card' = Card(filename, i + 1)
                          /\ candidates' =
                               Append(NoteField(candidates),
                                      [file_index |-> i + 1, raw |-> <<>>])
                     ELSE /\ current_card' = card
                          /\ candidates' = NoteField(candidates)
                          /\ UNCHANGED <<yielded, i>>
    /\ UNCHANGED <<filename, lines, deckVars, mainVars>>

\* lines 344-345: any other line joins the current field
AppendLine ==
    /\ ppc = "reading" /\ pos <= Len(lines)
    /\ ~is_separator(strip(lines[pos]))
    /\ current_field_lines' = Append(current_field_lines, lines[pos])
    /\ pos' = pos + 1
    /\ UNCHANGED <<filename, lines, i, current_card, yielded, candidates, ppc,
                   deckVars, mainVars>>

\* lines 347-352: end of input
EndOfInput ==
    /\ ppc = "reading" /\ pos > Len(lines)
    /\ LET is_markdown == ~has_front_and_back(current_card)
           field == compile_field(current_field_lines, is_markdown)
           card == IF current_field_lines # <<>>
                   THEN add_field(current_card, field) ELSE current_card
       IN  \E fetch_ok \in BOOLEAN :
             IF /\ current_field_lines # <<>>
                /\ compile_raises(current_field_lines, is_markdown, fetch_ok)
             THEN /\ ppc' = "raised"
                  /\ UNCHANGED <<current_card, yielded, candidates>>
             ELSE /\ ppc' = "done"
                  /\ current_card' = card
                  /\ candidates' = IF current_field_lines # <<>>
                                   THEN NoteField(candidates) ELSE candidates
                  /\ yielded' = IF has_data(card)
                                THEN Append(yielded, card) ELSE yielded
    /\ UNCHANGED <<filename, lines, pos, current_field_lines, i, deckVars,
                   mainVars>>

NextParse == ReadSeparator \/ AppendLine \/ EndOfInput

---------------------------------------------------------------------------
(* Media references and decks. *)

FirstSep(s) == CHOOSE k \in SepAt(s) : \A m \in SepAt(s) : k <= m

\* str.split(os.sep): the components between the separators
RECURSIVE split(_)
split(s) ==
    IF SepAt(s) = {} THEN <<s>>
    ELSE <<SubSeq(s, 1, FirstSep(s) - 1)>>
         \o split(SubSeq(s, FirstSep(s) + 1, Len(s)))

\* glue.join(parts)
RECURSIVE join(_, _)
join(glue, parts) ==
    IF parts = <<>> THEN <<>>
    ELSE IF Len(parts) = 1 THEN parts[1]
    ELSE parts[1] \o <<glue>> \o join(glue, Tail(parts))

isabs(path) == path # <<>> /\ path[1] = Sep

\* os.path.join(a, b)
pathjoin(a, b) ==
    IF isabs(b) THEN b
    ELSE IF a = <<>> \/ a[Len(a)] = Sep THEN a \o b
    ELSE a \o <<Sep>> \o b

\* the component stack of os.path.normpath
RECURSIVE norm(_, _, _)
norm(comps, acc, abs) ==
    IF comps = <<>> THEN acc
    ELSE LET c == Head(comps)
             rest == Tail(comps)
         IN  IF c = <<>> \/ c = <<".">> THEN norm(rest, acc, abs)
             ELSE IF c = <<"..">>
                  THEN IF acc # <<>> /\ acc[Len(acc)] # <<"..">>
                       THEN norm(rest, SubSeq(acc, 1, Len(acc) - 1), abs)
                       ELSE IF abs THEN norm(rest, acc, abs)
                       ELSE norm(rest, Append(acc, c), abs)
                  ELSE norm(rest, Append(acc, c), abs)

normpath(path) ==
    LET comps == norm(split(path), <<>>, isabs(path))
        body == join(Sep, comps)
    IN  IF isabs(path) THEN <<Sep>> \o body
        ELSE IF body = <<>> THEN <<".">> ELSE body

\* Card.make_ref_pair: (absolute source path, flattened package name)
make_ref_pair(card, ref) ==
    LET newname == join("%", split(ref))
        abspath == IF isabs(ref) THEN ref
                   ELSE normpath(pathjoin(deckdir(card), ref))
    IN  <<abspath, newname>>

\* A compiled field, as the media resolver sees it: a sequence of elements,
\* each a src="..." attribute with its reference, an alt="..." attribute, or
\* other markup.
Text == [tag |-> "text", ref |-> <<>>]
Alt == [tag |-> "alt", ref |-> <<>>]
Src(ref) == [tag |-> "src", ref |-> ref]

RECURSIVE SelectTag(_, _, _)
SelectTag(field, tag, keep) ==
    IF field = <<>> THEN <<>>
    ELSE (IF (Head(field).tag = tag) = keep THEN <<Head(field)>> ELSE <<>>)
         \o SelectTag(Tail(field), tag, keep)

\* the matches of the src regex in one field, as pairs, in order
FieldPairs(card, field) ==
    LET srcs == SelectTag(field, "src", TRUE)
    IN  [k \in DOMAIN srcs |-> make_ref_pair(card, srcs[k].ref)]

\* the field after re.sub of the src regex and of the alt regex
RewriteField(card, field) ==
    LET sub == [k \in DOMAIN field |->
                  IF field[k].tag = "src"
                  THEN Src(make_ref_pair(card, field[k].ref)[2])
                  ELSE field[k]]
    IN  SelectTag(sub, "alt", FALSE)

RECURSIVE Flatten(_)
Flatten(seqs) == IF seqs = <<>> THEN <<>> ELSE Head(seqs) \o Flatten(Tail(seqs))

\* Card.determine_media_references: the pairs it yields, field by field
determine_media_references(card) ==
    Flatten([p \in DOMAIN card.fields |-> FieldPairs(card, card.fields[p])])

\* ... and the card it leaves behind
RewriteCard(card) ==
    [card EXCEPT !.fields =
        [p \in DOMAIN card.fields |-> RewriteField(card, card.fields[p])]]

\* Card.finalize
finalize(card) ==
    IF Len(card.fields) > 3
    THEN [card EXCEPT !.fields = SubSeq(card.fields, 1, 3)] ELSE card

\* Card.card_id, whose hash is the note's guid
card_id(card) ==
    [deck |-> deckname(card), base |-> basename(card.filename),
     index |-> card.file_index]

\* Card.to_genanki_note; source is history: the document the note came from
to_genanki_note(card) ==
    [guid |-> card_id(card), fields |-> card.fields, source |-> card.filename]

\* DeckCollection.__getitem__ followed by Deck.add_note
add_note(dks, name, note) ==
    IF name \in DOMAIN dks
    THEN [dks EXCEPT ![name] = Append(@, note)]
    ELSE [n \in DOMAIN dks \cup {name} |->
            IF n = name THEN <<note>> ELSE dks[n]]

\* copyfile(abspath, newpath) for the first n pairs
RECURSIVE StageAll(_, _, _)
StageAll(dir, prs, n) ==
    IF n = 0 THEN dir
    ELSE LET before == StageAll(dir, prs, n - 1)
             new == prs[n][2]
         IN  [m \in DOMAIN before \cup {new} |->
                IF m = new THEN prs[n][1] ELSE before[m]]

\* the documents of the walk, in os.walk order
DeckFiles ==
    << <<Sep, "x", Sep, "deck1", Sep, "a.md">>,
       <<Sep, "x", Sep, "deck1", Sep, "b.md">>,
       <<Sep, "x", Sep, "deck2", Sep, "a.md">>,
       <<Sep, "y", Sep, "deck1", Sep, "a.md">> >>

\* the references the cards of SpecDeck embed
Refs ==
    { <<"img.png">>,
      <<"images", Sep, "diagram.png">>,
      <<"images", "%", "diagram.png">>,
      <<"..", Sep, "deck2", Sep, "img.png">>,
      <<Sep, "cwd", Sep, "d.png">> }

\* the field lists of the cards of SpecDeck: plain, with one image, and
\* with a fourth field that finalize drops
FieldChoices ==
    {<<(<<Text>>)>>}
    \cup {<<(<<Text, Src(r), Alt>>), (<<Text>>)>> : r \in Refs}
    \cup {<<(<<Text>>), (<<Text>>), (<<Text>>), (<<Src(<<"img.png">>)>>)>>}

DeckIdle ==
    /\ decks = <<>> /\ media = {} /\ staged = <<>> /\ pairs = {}
    /\ ncards = 0 /\ cursor = <<1, 0>> /\ dpc = "idle"

\* line 382-384
InitDeck ==
    /\ decks = <<>> /\ media = {} /\ staged = <<>> /\ pairs = {}
    /\ ncards = 0 /\ cursor = <<1, 0>> /\ dpc = "assembling"

\* the next card of the iterator: of the file it is at or of a later one
NextCards ==
    {<<k, [filename |-> DeckFiles[k],
           file_index |-> IF k = cursor[1] THEN cursor[2] ELSE 0,
           fields |-> fs]>> :
        k \in cursor[1]..Len(DeckFiles), fs \in FieldChoices}

\* lines 385-390: one turn of the loop, every copy succeeding
AttachCard ==
    /\ dpc = "assembling" /\ ncards < MaxCards
    /\ \E nc \in NextCards :
         LET card == finalize(nc[2])
             prs == determine_media_references(card)
             done == RewriteCard(card)
         IN  /\ staged' = StageAll(staged, prs, Len(prs))
             /\ media' = media \cup {prs[k][2] : k \in DOMAIN prs}
             /\ pairs' = pairs \cup {prs[k] : k \in DOMAIN prs}
             /\ decks' = add_note(decks, deckname(done), to_genanki_note(done))
             /\ cursor' = <<nc[1], nc[2].file_index + 1>>
    /\ ncards' = ncards + 1
    /\ UNCHANGED <<dpc, parseVars, mainVars>>

\* line 388: copyfile raises on the n-th reference of a card (the source
\* file is missing or unreadable); the copies before it are done
StageFails ==
    /\ dpc = "assembling" /\ ncards < MaxCards
    /\ \E nc \in NextCards :
         LET card == finalize(nc[2])
             prs == determine_media_references(card)
         IN  \E n \in DOMAIN prs :
               /\ staged' = StageAll(staged, prs, n - 1)
               /\ media' = media \cup {prs[k][2] : k \in 1..(n - 1)}
               /\ pairs' = pairs \cup {prs[k] : k \in 1..(n - 1)}
    /\ dpc' = "raised"
    /\ UNCHANGED <<decks, ncards, cursor, parseVars, mainVars>>

\* lines 392-396: the iterator is exhausted, the package is written
WritePackage ==
    /\ dpc = "assembling"
    /\ \E write_ok \in BOOLEAN :
         dpc' = IF write_ok THEN "written" ELSE "raised"
    /\ UNCHANGED <<decks, media, staged, pairs, ncards, cursor, parseVars,
                   mainVars>>

NextDeck == AttachCard \/ StageFails \/ WritePackage

---------------------------------------------------------------------------
(* main: the incremental build over a tree of documents. *)

Files == 1..NumFiles

\* line 361: file 1 of the tree is not a markdown document
IsMarkdown(f) == f # 1

Contents == 0..(NumContents - 1)

\* simple_hash, abstracted to a small space in which contents collide; 0 is
\* kept for None, the answer of VERSION_LOG.get for an unseen path
simple_hash(text) == (text % HashBuckets) + 1

EmptyLedger == [f \in Files |-> 0]

should_process_always(old_hash, cur_hash, only_updated) == TRUE

should_process_inverted(old_hash, cur_hash, only_updated) ==
    old_hash = cur_hash \/ ~only_updated

\* line 366
should_process(old_hash, cur_hash, only_updated) ==
    old_hash # cur_hash \/ ~only_updated

\* the ledger file after main was left by an exception: line 450 was not
\* reached
ledger_after_abort_saved(on_disk, in_memory) == in_memory

ledger_after_abort(on_disk, in_memory) == on_disk

Resting == {"idle", "done", "aborted"}

MainIdle ==
    /\ content = [f \in Files |-> 0]
    /\ diskLedger = EmptyLedger
    /\ VERSION_LOG = EmptyLedger
    /\ updated_only = FALSE
    /\ phase = "idle"
    /\ walk = 1
    /\ processed = {}
    /\ prevProcessed = {}
    /\ prevPhase = "idle"
    /\ prevUpdatedOnly = FALSE
    /\ failed = 0
    /\ edited = FALSE
    /\ sameTree = FALSE
    /\ runs = 0

\* between two builds a document is rewritten
Edit ==
    /\ phase \in Resting
    /\ \E f \in Files, c \in Contents :
         /\ IsMarkdown(f)
         /\ content[f] # c
         /\ content' = [content EXCEPT ![f] = c]
         /\ edited' = (edited \/ f # failed)
    /\ UNCHANGED <<diskLedger, VERSION_LOG, updated_only, phase, walk,
                   processed, prevProcessed, prevPhase,
                   prevUpdatedOnly, failed, sameTree, runs, parseVars, deckVars>>

\* lines 430-445: a new process; load_version_log reads the ledger file
\* (an absent file and an empty ledger are the same mapping)
StartRun ==
    /\ phase \in Resting /\ runs < MaxRuns
    /\ \E uo \in BOOLEAN : updated_only' = uo
    /\ VERSION_LOG' = diskLedger
    /\ phase' = "walking"
    /\ walk' = 1
    /\ processed' = {}
    /\ prevProcessed' = processed
    /\ prevPhase' = phase
    /\ prevUpdatedOnly' = updated_only
    /\ failed' = 0
    /\ edited' = FALSE
    /\ sameTree' = ~edited
    /\ runs' = runs + 1
    /\ UNCHANGED <<content, diskLedger, parseVars, deckVars>>

\* lines 361-366: a file that is no document, or a document the ledger
\* says is unchanged
SkipFile ==
    /\ phase = "walking" /\ walk <= NumFiles
    /\ \/ ~IsMarkdown(walk)
       \/ ~should_process(VERSION_LOG[walk], simple_hash(content[walk]),
                          updated_only)
    /\ walk' = walk + 1
    /\ UNCHANGED <<content, diskLedger, VERSION_LOG, updated_only,
                   phase, processed, prevProcessed, prevPhase,
                   prevUpdatedOnly, failed, edited, sameTree, runs, parseVars, deckVars>>

\* lines 367-373 with the loop of cards_to_apkg: every card of the document
\* is parsed and attached, then the document is recorded
ParseFile ==
    /\ phase = "walking" /\ walk <= NumFiles
    /\ IsMarkdown(walk)
    /\ should_process(VERSION_LOG[walk], simple_hash(content[walk]),
                      updated_only)
    /\ VERSION_LOG' = [VERSION_LOG EXCEPT ![walk] = simple_hash(content[walk])]
    /\ processed' = processed \cup {walk}
    /\ walk' = walk + 1
    /\ UNCHANGED <<content, diskLedger, updated_only, phase,
                   prevProcessed, prevPhase, prevUpdatedOnly,
                   failed, edited, sameTree, runs, parseVars, deckVars>>

\* lines 370-371, 308-311, 388: parsing the document or staging its media
\* raises, and the exception leaves main; the process ends and its memory
\* is gone
ParseFails ==
    /\ phase = "walking" /\ walk <= NumFiles
    /\ IsMarkdown(walk)
    /\ should_process(VERSION_LOG[walk], simple_hash(content[walk]),
                      updated_only)
    /\ phase' = "aborted"
    /\ failed' = walk
    /\ diskLedger' = ledger_after_abort(diskLedger, VERSION_LOG)
    /\ VERSION_LOG' = EmptyLedger
    /\ UNCHANGED <<content, updated_only, walk,
                   processed, prevProcessed, prevPhase,
                   prevUpdatedOnly, edited, sameTree, runs, parseVars, deckVars>>

\* lines 392-396: the walk is over and the package is written
PackageWritten ==
    /\ phase = "walking" /\ walk > NumFiles
    /\ phase' = "packaged"
    /\ UNCHANGED <<content, diskLedger, VERSION_LOG, updated_only,
                   walk, processed, prevProcessed, prevPhase,
                   prevUpdatedOnly, failed, edited, sameTree, runs, parseVars, deckVars>>

\* line 396: writing the package raises
PackageFails ==
    /\ phase = "walking" /\ walk > NumFiles
    /\ phase' = "aborted"
    /\ diskLedger' = ledger_after_abort(diskLedger, VERSION_LOG)
    /\ VERSION_LOG' = EmptyLedger
    /\ UNCHANGED <<content, updated_only, walk,
                   processed, prevProcessed, prevPhase,
                   prevUpdatedOnly, failed, edited, sameTree, runs, parseVars, deckVars>>

\* line 450: the whole ledger overwrites the ledger file
SaveLedger ==
    /\ phase = "packaged"
    /\ diskLedger' = VERSION_LOG
    /\ phase' = "done"
    /\ VERSION_LOG' = EmptyLedger
    /\ UNCHANGED <<content, updated_only, walk,
                   processed, prevProcessed, prevPhase,
                   prevUpdatedOnly, failed, edited, sameTree, runs, parseVars, deckVars>>

Next ==
    \/ Edit \/ StartRun \/ SkipFile \/ ParseFile
    \/ ParseFails \/ PackageWritten \/ PackageFails \/ SaveLedger

---------------------------------------------------------------------------
(* The specifications. *)

\* the tree before the first build, no ledger file yet
Init == MainIdle /\ ParseIdle /\ DeckIdle

Spec == Init /\ [][Next]_vars

\* produce_cards on a document
InitOfParse == InitParse /\ DeckIdle /\ MainIdle

SpecParse == InitOfParse /\ [][NextParse]_vars

\* cards_to_apkg on a stream of cards
InitOfDeck == InitDeck /\ ParseIdle /\ MainIdle

SpecDeck == InitOfDeck /\ [][NextDeck]_vars

---------------------------------------------------------------------------
(* The claims about produce_cards, under SpecParse. *)

CardSeparators(doc) == {k \in DOMAIN doc : strip(doc[k]) = "---"}

NoDelimiters(doc) == \A k \in DOMAIN doc : strip(doc[k]) \notin {"%", "---"}

\* the rich-text compiled form of a text
RichText(text) == field_to_html(extract_images(text))

(* C1: every card produce_cards yields, at a "---" line or at the end of  *)
(* the input, has at least one field with non-whitespace content.         *)
C1_YieldedCardsHaveData ==
    \A k \in DOMAIN yielded :
        \E p \in DOMAIN yielded[k].fields : HasContent(yielded[k].fields[p])

ParsedBasic == ppc = "done" /\ lines = BasicDoc /\ filename = BasicFile

(* C2, as claimed: deck1/basic.md yields exactly one card with three      *)
(* fields, "Front text" and "Back text" as rich text and "tag1, tag2" as  *)
(* plain text, in deck "deck1".                                           *)
C2_ThreeFields ==
    ParsedBasic =>
        /\ Len(yielded) = 1
        /\ Len(yielded[1].fields) = 3
        /\ yielded[1].fields[1] = RichText(<<"Front text">>)
        /\ yielded[1].fields[2] = RichText(<<"Back text">>)
        /\ yielded[1].fields[3] = <<"tag1, tag2">>
        /\ deckname(yielded[1]) = <<"deck1">>

(* C2, amended: deck1/basic.md yields exactly one card with two fields,   *)
(* the front "Front text" as rich text and the back, the rich text of all *)
(* that stands between the "%" and the "---" ("Back text" and             *)
(* "tag1, tag2" as two paragraphs), in deck "deck1".                      *)
C2_TwoFields ==
    ParsedBasic =>
        /\ Len(yielded) = 1
        /\ yielded[1].file_index = 0
        /\ yielded[1].fields =
             << <<"<p>", "Front text", "</p>">>,
                <<"<p>", "Back text", "</p>", "<p>", "tag1, tag2", "</p>">> >>
        /\ deckname(yielded[1]) = <<"deck1">>

C2_Witness == ParsedBasic /\ Len(yielded) = 1

(* C8, as claimed: a text without delimiter lines, the empty and the      *)
(* whitespace-only text included, yields exactly one card with exactly    *)
(* one field, the rich-text compiled form of the text.                    *)
C8_AlwaysOneCard ==
    (ppc = "done" /\ NoDelimiters(lines)) =>
        /\ Len(yielded) = 1
        /\ yielded[1].fields = <<RichText(lines)>>

(* C8, amended: a text without delimiter lines that parses without a      *)
(* fetch error yields exactly one card with exactly one field, the        *)
(* rich-text compiled form of the text, when that form has non-whitespace *)
(* content, and no card otherwise (the empty and the whitespace-only      *)
(* text).                                                                 *)
C8_OneCardOrNone ==
    (ppc = "done" /\ NoDelimiters(lines)) =>
        IF HasContent(RichText(lines))
        THEN /\ Len(yielded) = 1
             /\ yielded[1].file_index = 0
             /\ yielded[1].fields = <<RichText(lines)>>
        ELSE yielded = <<>>

C8_Witness ==
    /\ ppc = "done" /\ NoDelimiters(lines) /\ Len(lines) = 3
    /\ lines[2] = "" /\ HasRemoteImage(lines)
    /\ Len(yielded) = 1

(* C9: a document with n card separators makes produce_cards build n+1    *)
(* cards, the k-th of them (from 0) with index k: at every point of the   *)
(* parse the cards built so far are one more than the "---" lines read,   *)
(* and the current card's index is the number of "---" lines read.        *)
C9_CandidateCount ==
    LET n == Cardinality(CardSeparators(SubSeq(lines, 1, pos - 1)))
    IN  /\ Len(candidates) = n + 1
        /\ \A k \in DOMAIN candidates : candidates[k].file_index = k - 1
        /\ current_card.file_index = n
        /\ (ppc = "done" =>
              Len(candidates) = Cardinality(CardSeparators(lines)) + 1)

C9_Witness ==
    /\ ppc = "done"
    /\ Cardinality(CardSeparators(lines)) = 2
    /\ \E k \in DOMAIN lines : strip(lines[k]) = "%"
    /\ Len(candidates) = 3

\* the fields of a card against the raw lines they were compiled from
FieldModes(card) ==
    LET raw == candidates[card.file_index + 1].raw
    IN  /\ Len(raw) = Len(card.fields)
        /\ \A p \in DOMAIN card.fields :
             card.fields[p] = IF p <= 2 THEN RichText(raw[p]) ELSE raw[p]

(* C10: in every card the fields at positions 0 and 1 are compiled as     *)
(* rich text and every later field as plain text (the concatenation of    *)
(* its raw lines), however the field is closed and whether or not the     *)
(* earlier fields are empty.                                              *)
C10_FieldModes ==
    /\ FieldModes(current_card)
    /\ \A k \in DOMAIN yielded : FieldModes(yielded[k])

C10_Witness ==
    \E k \in DOMAIN yielded :
        /\ Len(yielded[k].fields) = 3
        /\ yielded[k].fields[1] = <<>>
        /\ yielded[k].fields[3] = <<"Front text">>
        /\ yielded[k].fields[3] # RichText(<<"Front text">>)

---------------------------------------------------------------------------
(* The claims about cards_to_apkg, under SpecDeck. *)

\* (deck name, source document) of every note attached
Attached ==
    UNION {{<<name, decks[name][k].source>> : k \in DOMAIN decks[name]} :
              name \in DOMAIN decks}

(* C3, as claimed: two cards are attached to the same deck if and only if *)
(* their source documents lie in the same directory.                      *)
C3_DeckPerDirectory ==
    \A a \in Attached, b \in Attached :
        (a[1] = b[1]) <=> (dirname(a[2]) = dirname(b[2]))

(* C3, amended: two cards are attached to the same deck if and only if    *)
(* the directories of their source documents have the same final path     *)
(* component; documents of one directory always share a deck, and         *)
(* documents of x/deck1 and y/deck1 share the deck "deck1".               *)
C3_DeckPerDirectoryName ==
    \A a \in Attached, b \in Attached :
        /\ (a[1] = b[1]) <=>
             (basename(dirname(a[2])) = basename(dirname(b[2])))
        /\ a[1] = basename(dirname(a[2]))

C3_Witness ==
    /\ dpc = "written"
    /\ \E a \in Attached, b \in Attached, c \in Attached :
         /\ a[1] = b[1] /\ dirname(a[2]) # dirname(b[2])
         /\ c[1] # a[1]

(* C7: media references that resolve to distinct absolute source paths    *)
(* get distinct flattened package names, and no flattened name holds a    *)
(* path separator.                                                        *)
C7_DistinctPackageNames ==
    /\ \A a \in pairs, b \in pairs : a[1] # b[1] => a[2] # b[2]
    /\ \A a \in pairs : SepAt(a[2]) = {}

---------------------------------------------------------------------------
(* The claims about the incremental build, under Spec. *)

MarkdownFiles == {f \in Files : IsMarkdown(f)}

(* C4: a build that follows a successful build over the unchanged tree,   *)
(* with updated_only enabled and the ledger the first build saved, parses *)
(* no document, whatever updated_only was in the first build.             *)
C4_SecondRunParsesNothing ==
    (prevPhase = "done" /\ sameTree /\ updated_only) => processed = {}

C4_Witness ==
    /\ phase = "done" /\ prevPhase = "done" /\ sameTree /\ updated_only
    /\ ~prevUpdatedOnly /\ prevProcessed = MarkdownFiles
    /\ \E f \in MarkdownFiles, g \in MarkdownFiles : content[f] # content[g]

(* C5: the ledger file is written only by the step that ends a            *)
(* successful build, after the package is written; a build that aborts,   *)
(* wherever it aborts, leaves the file as it found it.                    *)
C5_LedgerWrittenOnlyOnSuccess ==
    [][diskLedger' # diskLedger => (phase = "packaged" /\ phase' = "done")]_vars

C5_Witness ==
    phase = "aborted" /\ processed # {} /\ failed # 0 /\ updated_only

\* a build with updated_only that follows an aborted build with
\* updated_only, nothing but the failing document edited in between
Rerun == prevPhase = "aborted" /\ prevUpdatedOnly /\ updated_only /\ sameTree

=============================================================================
